---- MODULE Spec2Model ----
(***************************************************************************)
(* A model of src/fields/Field.js: the Field class of Airtable-ORM.        *)
(*                                                                         *)
(* JavaScript values are records with one uniform shape, so that any two   *)
(* of them can be compared.  Arrays and plain objects carry an identity    *)
(* (id) next to their content, because the code compares them with === .   *)
(***************************************************************************)
EXTENDS Integers, Sequences, FiniteSets

VARIABLES
  constructed,      \* the Field instances that exist
  _name,            \* this._name          of every instance
  _config,          \* this._config        of every instance
  _type,            \* this._type          of every instance
  _value,           \* this._value         of every instance
  _originalValue_,  \* this._originalValue_ of every instance
  running,          \* FALSE once process.exit(2) has been called
  last,             \* the last operation, its argument and how it ended
  heap,             \* the objects _deepFreezeValue works on, by address
  frozen            \* the last _deepFreezeValue call: input, result, heap before

vars == <<constructed, _name, _config, _type, _value, _originalValue_, running, last, heap, frozen>>

-----------------------------------------------------------------------------
(* Bounds *)

\* numbers are 0 .. MaxNum
MaxNum == 2
\* arrays hold at most MaxLen elements
MaxLen == 2
\* the caller builds at most MaxHeap objects before it calls _deepFreezeValue
MaxHeap == 2

-----------------------------------------------------------------------------
(* JavaScript values *)

Undefined == [t |-> "undefined", n |-> 0, s |-> "", b |-> FALSE, e |-> <<>>, k |-> <<>>, id |-> ""]
Null      == [t |-> "null",      n |-> 0, s |-> "", b |-> FALSE, e |-> <<>>, k |-> <<>>, id |-> ""]
NaN       == [t |-> "NaN",       n |-> 0, s |-> "", b |-> FALSE, e |-> <<>>, k |-> <<>>, id |-> ""]
Num(n)    == [t |-> "number",    n |-> n, s |-> "", b |-> FALSE, e |-> <<>>, k |-> <<>>, id |-> ""]
Str(s)    == [t |-> "string",    n |-> 0, s |-> s,  b |-> FALSE, e |-> <<>>, k |-> <<>>, id |-> ""]
Bool(b)   == [t |-> "boolean",   n |-> 0, s |-> "", b |-> b,     e |-> <<>>, k |-> <<>>, id |-> ""]
\* an array with identity id and elements e; the identity "new" is that of an
\* array the code has just allocated, which is identical to no other object
Arr(id, e)    == [t |-> "array",  n |-> 0, s |-> "", b |-> FALSE, e |-> e, k |-> <<>>, id |-> id]
\* a plain object with identity id, keys k (in insertion order) and values e
Obj(id, k, e) == [t |-> "object", n |-> 0, s |-> "", b |-> FALSE, e |-> e, k |-> k,    id |-> id]

\* typeof v
Typeof(v) ==
  CASE v.t = "undefined" -> "undefined"
    [] v.t = "null"      -> "object"
    [] v.t = "NaN"       -> "number"
    [] v.t = "number"    -> "number"
    [] v.t = "string"    -> "string"
    [] v.t = "boolean"   -> "boolean"
    [] v.t = "array"     -> "object"
    [] v.t = "object"    -> "object"

\* Array.isArray(v)
IsArray(v) == v.t = "array"

\* a === b
StrictEq(a, b) ==
  CASE a.t # b.t                 -> FALSE
    [] a.t = "NaN"               -> FALSE
    [] a.t \in {"array", "object"} -> a = b /\ a.id # "new"
    [] OTHER                     -> a = b

\* the truthiness of v, as || and !! see it
Truthy(v) ==
  CASE v.t \in {"undefined", "null", "NaN"} -> FALSE
    [] v.t = "number"  -> v.n # 0
    [] v.t = "string"  -> v.s # ""
    [] v.t = "boolean" -> v.b
    [] OTHER           -> TRUE

\* o[key] of a plain object (undefined when the key is absent)
GetProp(o, key) ==
  IF o.t = "object" /\ \E i \in 1..Len(o.k) : o.k[i] = key
  THEN o.e[CHOOSE i \in 1..Len(o.k) : o.k[i] = key]
  ELSE Undefined

\* o[key] = v on a plain object
SetProp(o, key, v) ==
  IF \E i \in 1..Len(o.k) : o.k[i] = key
  THEN [o EXCEPT !.e[CHOOSE i \in 1..Len(o.k) : o.k[i] = key] = v]
  ELSE [o EXCEPT !.k = Append(@, key), !.e = Append(o.e, v)]

-----------------------------------------------------------------------------
(* Conversions between values and text *)

Digits == "0123456789"

\* the decimal digit d as text
DigitStr(d) == SubSeq(Digits, d + 1, d + 1)

IsDigit(c) == \E d \in 0..9 : DigitStr(d) = c

DigitVal(c) == CHOOSE d \in 0..9 : DigitStr(d) = c

\* the text of a number n >= 0
RECURSIVE NumToStr(_)
NumToStr(n) ==
  IF n < 10 THEN DigitStr(n) ELSE NumToStr(n \div 10) \o DigitStr(n % 10)

RECURSIVE AllDigits(_)
AllDigits(s) == s = "" \/ (IsDigit(Head(s)) /\ AllDigits(Tail(s)))

RECURSIVE DigitsVal(_, _)
DigitsVal(s, acc) ==
  IF s = "" THEN acc ELSE DigitsVal(Tail(s), 10 * acc + DigitVal(Head(s)))

\* Number(s) of a string: the empty string is 0, decimal digits are their
\* number, any other text is NaN
StrToNum(s) ==
  IF s = "" THEN Num(0)
  ELSE IF AllDigits(s) THEN Num(DigitsVal(s, 0))
  ELSE NaN

\* `${v}` and String(v); an array is its elements joined by commas, with
\* undefined and null elements as the empty text
RECURSIVE ToString(_)
RECURSIVE Join(_)
ToString(v) ==
  CASE v.t = "undefined" -> "undefined"
    [] v.t = "null"      -> "null"
    [] v.t = "NaN"       -> "NaN"
    [] v.t = "number"    -> NumToStr(v.n)
    [] v.t = "string"    -> v.s
    [] v.t = "boolean"   -> IF v.b THEN "true" ELSE "false"
    [] v.t = "array"     -> Join(v.e)
    [] v.t = "object"    -> "[object Object]"

Join(e) ==
  IF e = <<>> THEN ""
  ELSE LET h == IF Head(e).t \in {"undefined", "null"} THEN "" ELSE ToString(Head(e))
       IN  IF Len(e) = 1 THEN h ELSE h \o "," \o Join(Tail(e))

\* Number(v)
ToNumber(v) ==
  CASE v.t = "undefined" -> NaN
    [] v.t = "null"      -> Num(0)
    [] v.t = "NaN"       -> NaN
    [] v.t = "number"    -> v
    [] v.t = "string"    -> StrToNum(v.s)
    [] v.t = "boolean"   -> IF v.b THEN Num(1) ELSE Num(0)
    [] v.t = "array"     -> StrToNum(ToString(v))
    [] v.t = "object"    -> StrToNum(ToString(v))

\* the text JSON.stringify gives a value inside an array or an object
RECURSIVE JSONText(_)
RECURSIVE JSONElems(_)
RECURSIVE JSONEntries(_, _, _)
JSONText(v) ==
  CASE v.t \in {"undefined", "null", "NaN"} -> "null"
    [] v.t = "number"  -> NumToStr(v.n)
    [] v.t = "string"  -> "\"" \o v.s \o "\""
    [] v.t = "boolean" -> IF v.b THEN "true" ELSE "false"
    [] v.t = "array"   -> "[" \o JSONElems(v.e) \o "]"
    [] v.t = "object"  -> "{" \o JSONEntries(v.k, v.e, TRUE) \o "}"

JSONElems(e) ==
  IF e = <<>> THEN ""
  ELSE IF Len(e) = 1 THEN JSONText(Head(e))
  ELSE JSONText(Head(e)) \o "," \o JSONElems(Tail(e))

\* the entries of an object; an entry whose value is undefined is left out
JSONEntries(k, e, first) ==
  IF k = <<>> THEN ""
  ELSE IF Head(e).t = "undefined" THEN JSONEntries(Tail(k), Tail(e), first)
  ELSE (IF first THEN "" ELSE ",") \o "\"" \o Head(k) \o "\":" \o JSONText(Head(e))
       \o JSONEntries(Tail(k), Tail(e), FALSE)

\* JSON.stringify(v): undefined for undefined, a string otherwise
JSONStringify(v) == IF v.t = "undefined" THEN Undefined ELSE Str(JSONText(v))

\* the characters of the texts the model builds, in UTF-16 code unit order
Alphabet == " ,0123456789NO[]abcdefijlnorstu"

CharRank(c) == CHOOSE i \in 1..Len(Alphabet) : SubSeq(Alphabet, i, i) = c

\* a < b by UTF-16 code units
RECURSIVE StrLess(_, _)
StrLess(a, b) ==
  IF b = "" THEN FALSE
  ELSE IF a = "" THEN TRUE
  ELSE IF Head(a) # Head(b) THEN CharRank(Head(a)) < CharRank(Head(b))
  ELSE StrLess(Tail(a), Tail(b))

\* Array.prototype.sort's default order: undefined last, the others by
\* their text
SortLess(x, y) ==
  /\ x.t # "undefined"
  /\ (y.t = "undefined" \/ StrLess(ToString(x), ToString(y)))

\* x put into the sorted sequence e, after the elements equal to it
RECURSIVE SortInsert(_, _)
SortInsert(e, x) ==
  IF e = <<>> THEN <<x>>
  ELSE IF SortLess(x, Head(e)) THEN <<x>> \o e
  ELSE <<Head(e)>> \o SortInsert(Tail(e), x)

\* [...e].sort(): a sorted copy (the sort is stable)
RECURSIVE Sort(_)
Sort(e) ==
  IF e = <<>> THEN <<>>
  ELSE SortInsert(Sort(SubSeq(e, 1, Len(e) - 1)), e[Len(e)])

\* [].concat(v): a new array with the elements of an array, or with v itself
Concat(v) == IF IsArray(v) THEN Arr("new", v.e) ELSE Arr("new", <<v>>)

-----------------------------------------------------------------------------
(* The Field class: getters *)

\* the two instances the model follows: a Field and its copy
Fields == {"field", "copy"}

\* get config
config(f) == IF Truthy(_config[f]) THEN _config[f] ELSE Obj("new", <<>>, <<>>)

\* get name
name(f) == _name[f]

\* get type
type(f) == _type[f]

\* get value
value(f) ==
  IF StrictEq(_value[f], Num(0)) \/ StrictEq(_value[f], Bool(FALSE)) THEN _value[f]
  ELSE IF Truthy(_value[f]) THEN _value[f]
  ELSE Null

\* get _originalValue
_originalValue(f) == _originalValue_[f]

\* get _saveValue
_saveValue(f) ==
  IF StrictEq(GetProp(config(f), "strict"), Bool(TRUE)) THEN value(f)
  ELSE IF value(f).t \in {"undefined", "null"} THEN Null
  ELSE IF _originalValue(f).t = "undefined" \/ Typeof(value(f)) = Typeof(_originalValue(f))
       THEN value(f)
  ELSE IF _originalValue(f).t # "undefined" /\ value(f).t \in {"undefined", "null", "NaN"}
       THEN Null
  ELSE IF Typeof(_originalValue(f)) = "string"  THEN Str(ToString(value(f)))
  ELSE IF Typeof(_originalValue(f)) = "boolean" THEN Bool(Truthy(value(f)))
  ELSE IF Typeof(_originalValue(f)) = "number"  THEN ToNumber(value(f))
  ELSE IF IsArray(_originalValue(f))            THEN Concat(value(f))
  ELSE value(f)

\* get _changed
_changed(f) ==
  IF IsArray(_originalValue(f)) /\ IsArray(value(f))
  THEN JSONStringify(Arr("new", Sort(_originalValue(f).e)))
         # JSONStringify(Arr("new", Sort(_saveValue(f).e)))
  ELSE /\ ~StrictEq(_originalValue(f), _saveValue(f))
       /\ JSONStringify(_originalValue(f)) # JSONStringify(value(f))

\* _error as it would be if the process ended only under suppression: thrown
\* whenever suppression is not requested
_error_ExitOnlySuppressed(f, forceThrow) ==
  IF forceThrow \/ ~StrictEq(GetProp(config(f), "__ignoreFieldErrors__"), Bool(TRUE))
  THEN "thrown"
  ELSE IF type(f).t = "undefined" THEN "exit"
  ELSE "logged"

\* _error(message, received, forceThrow): how the call ends.  "thrown": the
\* Error is thrown to the caller; "logged": console.error and return;
\* "exit": console.error and process.exit(2)
_error(f, forceThrow) ==
  IF /\ type(f).t # "undefined"
     /\ (forceThrow \/ ~StrictEq(GetProp(config(f), "__ignoreFieldErrors__"), Bool(TRUE)))
  THEN "thrown"
  ELSE IF type(f).t = "undefined" THEN "exit"
  ELSE "logged"

\* _checkName without the test of the length
_checkName_AnyString(f, nm) ==
  IF Typeof(nm) # "string" THEN _error(f, FALSE) ELSE "none"

\* _checkName(name): "none" when the name is accepted, else how _error ends
_checkName(f, nm) ==
  IF Typeof(nm) # "string" \/ Len(nm.s) < 1 THEN _error(f, FALSE) ELSE "none"

\* constructor(name, value, config = {}) run on the fresh instance f: how it
\* ends and the fields it has assigned by then
constructor(f, nm, v, c) ==
  LET cfg0 == IF c.t = "undefined" THEN Obj("default", <<>>, <<>>) ELSE c
      cfg  == IF cfg0.t = "object" /\ ~StrictEq(GetProp(cfg0, "strict"), Bool(TRUE))
              THEN SetProp(cfg0, "strict", Bool(FALSE)) ELSE cfg0
      none == [err |-> "thrown", _name |-> Undefined, _config |-> Undefined,
               _value |-> Undefined, _originalValue_ |-> Undefined]
  IN  IF Typeof(nm) # "string" THEN none
      \* config.strict of null, or an assignment to a property of a primitive
      \* in strict mode: a TypeError
      ELSE IF cfg0.t \notin {"object", "array"} THEN none
      ELSE IF _checkName(f, nm) # "none"
           THEN [none EXCEPT !.err = _checkName(f, nm)]
      ELSE IF IsArray(cfg)
           THEN [none EXCEPT !.err = _error(f, FALSE), !._name = nm]
      ELSE [err |-> "none", _name |-> nm, _config |-> cfg,
            _value |-> v, _originalValue_ |-> v]

-----------------------------------------------------------------------------
(* The Field class: operations *)

\* what every operation records: the operation, its argument and its end
Ended(op, f, arg, err) ==
  /\ last' = [op |-> op, f |-> f, arg |-> arg, err |-> err]
  /\ running' = (running /\ err # "exit")

\* new Field(nm, v, c)
Construct(f, nm, v, c) ==
  /\ running
  /\ f \notin constructed
  /\ LET r == constructor(f, nm, v, c)
     IN  /\ Ended("construct", f, v, r.err)
         /\ IF r.err = "none"
            THEN /\ constructed' = constructed \cup {f}
                 /\ _name' = [_name EXCEPT ![f] = r._name]
                 /\ _config' = [_config EXCEPT ![f] = r._config]
                 /\ _value' = [_value EXCEPT ![f] = r._value]
                 /\ _originalValue_' = [_originalValue_ EXCEPT ![f] = r._originalValue_]
            ELSE UNCHANGED <<constructed, _name, _config, _value, _originalValue_>>
  /\ UNCHANGED <<_type, heap, frozen>>

\* field.name = nm
SetName(f, nm) ==
  /\ running
  /\ f \in constructed
  /\ Ended("setName", f, nm, _checkName(f, nm))
  /\ _name' = IF _checkName(f, nm) = "none" THEN [_name EXCEPT ![f] = nm] ELSE _name
  /\ UNCHANGED <<constructed, _config, _type, _value, _originalValue_, heap, frozen>>

\* field.config = c
SetConfig(f, c) ==
  /\ running
  /\ f \in constructed
  /\ IF _config[f].t # "undefined" THEN
       /\ Ended("setConfig", f, c, _error(f, FALSE))
       /\ UNCHANGED _config
     ELSE IF Typeof(c) # "object" \/ IsArray(c) THEN
       /\ Ended("setConfig", f, c, _error(f, FALSE))
       /\ UNCHANGED _config
     ELSE
       /\ Ended("setConfig", f, c, "none")
       /\ _config' = [_config EXCEPT ![f] = c]
  /\ UNCHANGED <<constructed, _name, _type, _value, _originalValue_, heap, frozen>>

\* set type without the test that type is still unset
SetType_Unguarded(f, ty) ==
  /\ running
  /\ f \in constructed
  /\ Ended("setType", f, ty, "none")
  /\ _type' = [_type EXCEPT ![f] = ty]
  /\ UNCHANGED <<constructed, _name, _config, _value, _originalValue_, heap, frozen>>

\* field.type = ty
SetType(f, ty) ==
  /\ running
  /\ f \in constructed
  /\ IF type(f).t # "undefined" THEN
       /\ Ended("setType", f, ty, _error(f, FALSE))
       /\ UNCHANGED _type
     ELSE
       /\ Ended("setType", f, ty, "none")
       /\ _type' = [_type EXCEPT ![f] = ty]
  /\ UNCHANGED <<constructed, _name, _config, _value, _originalValue_, heap, frozen>>

\* set value that also takes the first value written as the baseline
SetValue_ResetsBaseline(f, v) ==
  /\ running
  /\ f \in constructed
  /\ Ended("setValue", f, v, "none")
  /\ _value' = [_value EXCEPT ![f] = v]
  /\ _originalValue_' =
       IF _originalValue_[f].t = "undefined"
       THEN [_originalValue_ EXCEPT ![f] = v] ELSE _originalValue_
  /\ UNCHANGED <<constructed, _name, _config, _type, heap, frozen>>

\* field.value = v
SetValue(f, v) ==
  /\ running
  /\ f \in constructed
  /\ Ended("setValue", f, v, "none")
  /\ _value' = [_value EXCEPT ![f] = v]
  /\ UNCHANGED <<constructed, _name, _config, _type, _originalValue_, heap, frozen>>

\* a read of field._saveValue
GetSaveValue(f) ==
  /\ running
  /\ f \in constructed
  /\ Ended("getSaveValue", f, _saveValue(f), "none")
  /\ UNCHANGED <<constructed, _name, _config, _type, _value, _originalValue_, heap, frozen>>

\* a read of field._changed
GetChanged(f) ==
  /\ running
  /\ f \in constructed
  /\ Ended("getChanged", f, Bool(_changed(f)), "none")
  /\ UNCHANGED <<constructed, _name, _config, _type, _value, _originalValue_, heap, frozen>>

\* field._error(message, received, forceThrow), as a subclass calls it
Error(f, forceThrow) ==
  /\ running
  /\ f \in constructed
  /\ Ended("error", f, Bool(forceThrow), _error(f, forceThrow))
  /\ UNCHANGED <<constructed, _name, _config, _type, _value, _originalValue_, heap, frozen>>

\* copy without the assignment of the source's baseline to the copy
Copy_FreshBaseline(f, g) ==
  /\ running
  /\ f \in constructed
  /\ g \notin constructed
  /\ LET r == constructor(g, name(f), value(f), config(f))
     IN  /\ Ended("copy", f, value(f), r.err)
         /\ IF r.err = "none"
            THEN /\ constructed' = constructed \cup {g}
                 /\ _name' = [_name EXCEPT ![g] = r._name]
                 /\ _config' = [_config EXCEPT ![g] = r._config]
                 /\ _value' = [_value EXCEPT ![g] = r._value]
                 /\ _originalValue_' = [_originalValue_ EXCEPT ![g] = r._originalValue_]
            ELSE UNCHANGED <<constructed, _name, _config, _value, _originalValue_>>
  /\ UNCHANGED <<_type, heap, frozen>>

\* g = f.copy()
Copy(f, g) ==
  /\ running
  /\ f \in constructed
  /\ g \notin constructed
  /\ LET r == constructor(g, name(f), value(f), config(f))
     IN  /\ Ended("copy", f, value(f), r.err)
         /\ IF r.err = "none"
            THEN /\ constructed' = constructed \cup {g}
                 /\ _name' = [_name EXCEPT ![g] = r._name]
                 /\ _config' = [_config EXCEPT ![g] = r._config]
                 /\ _value' = [_value EXCEPT ![g] = r._value]
                 /\ _originalValue_' = [_originalValue_ EXCEPT ![g] = _originalValue(f)]
            ELSE UNCHANGED <<constructed, _name, _config, _value, _originalValue_>>
  /\ UNCHANGED <<_type, heap, frozen>>

-----------------------------------------------------------------------------
(* Inputs *)

\* the names a caller passes: two valid ones, the empty string, a non-string
Names == {Str("Name"), Str("Other"), Str(""), Num(1)}

\* the configs a caller passes: omitted, plain objects with and without
\* strict and __ignoreFieldErrors__, an array, null
Configs ==
  { Undefined,
    Obj("c1", <<>>, <<>>),
    Obj("c2", <<"strict">>, <<Bool(TRUE)>>),
    Obj("c3", <<"__ignoreFieldErrors__">>, <<Bool(TRUE)>>),
    Obj("c4", <<"strict", "__ignoreFieldErrors__">>, <<Bool(TRUE), Bool(TRUE)>>),
    Arr("c5", <<>>),
    Null }

\* the types a subclass sets; undefined and null are assignable too
Types == {Undefined, Null, Str("TextField"), Str("NumberField")}

\* the numbers, strings and booleans a caller assigns
Nums == {Num(n) : n \in 0..MaxNum}

Strs == {Str(""), Str("a"), Str("b"), Str("1")}

Bools == {Bool(TRUE), Bool(FALSE)}

\* the elements of the arrays a caller assigns: 1 and "1" have the same text
Elems == {Num(1), Str("1"), Str("a")}

SeqsUpTo(S, n) == UNION {[1..m -> S] : m \in 0..n}

Arrays == {Arr("p", e) : e \in SeqsUpTo(Elems, MaxLen)}

\* plain objects; o1 and o2 are two objects with the same content
Objects ==
  { Obj("o1", <<"a">>, <<Num(1)>>),
    Obj("o2", <<"a">>, <<Num(1)>>),
    Obj("o3", <<"b">>, <<Str("a")>>) }

Values == {Undefined, Null, NaN} \cup Nums \cup Strs \cup Bools \cup Arrays \cup Objects

-----------------------------------------------------------------------------
(* Specifications *)

NoCall == [op |-> "none", f |-> "", arg |-> Undefined, err |-> "none"]

\* no call of _deepFreezeValue yet
NoFreeze ==
  [ calls |-> 0, input |-> Undefined, before |-> <<>>,
    result |-> Undefined, err |-> FALSE, after |-> <<>>,
    result2 |-> Undefined, err2 |-> FALSE ]

Init ==
  /\ constructed = {}
  /\ _name = [f \in Fields |-> Undefined]
  /\ _config = [f \in Fields |-> Undefined]
  /\ _type = [f \in Fields |-> Undefined]
  /\ _value = [f \in Fields |-> Undefined]
  /\ _originalValue_ = [f \in Fields |-> Undefined]
  /\ running = TRUE
  /\ last = NoCall
  /\ heap = <<>>
  /\ frozen = NoFreeze

\* one Field: its construction, the writes to name, config and type, and
\* the calls of _error
NextAccess ==
  \/ \E nm \in Names, v \in {Undefined, Str("a")}, c \in Configs :
       Construct("field", nm, v, c)
  \/ \E nm \in Names : SetName("field", nm)
  \/ \E c \in Configs : SetConfig("field", c)
  \/ \E ty \in Types : SetType("field", ty)
  \/ \E forceThrow \in BOOLEAN : Error("field", forceThrow)

SpecAccess == Init /\ [][NextAccess]_vars

-----------------------------------------------------------------------------
(* Claims about name, config, type and _error *)

\* the config requests suppression
Suppressed(f) == GetProp(_config[f], "__ignoreFieldErrors__") = Bool(TRUE)

\* C1: config and type are write-once.  After construction no step changes
\* the stored config; type, once set (not undefined), never changes; every
\* assignment to config, and every assignment to type once it is set,
\* calls _error and is not applied.
C1_WriteOnce ==
  [][\A f \in constructed :
       /\ _config'[f] = _config[f]
       /\ (_type[f].t # "undefined" => _type'[f] = _type[f])
       /\ (last'.op = "setConfig" /\ last'.f = f => last'.err # "none")
       /\ (last'.op = "setType" /\ last'.f = f /\ _type[f].t # "undefined"
             => last'.err # "none")]_vars

\* a second assignment to type was made, went to _error, and type is unchanged
C1_Witness ==
  /\ last.op = "setType"
  /\ last.arg = Str("NumberField")
  /\ last.err = "logged"
  /\ _type["field"] = Str("TextField")

\* C2 as stated: after construction name never changes, and every later
\* assignment to name is an error.
C2_NameImmutable ==
  [][\A f \in constructed :
       /\ _name'[f] = _name[f]
       /\ (last'.op = "setName" /\ last'.f = f => last'.err # "none")]_vars

\* C2 amended: name stays a non-empty string and only an assignment to name
\* changes it; an assignment of a non-empty string replaces name without an
\* error, an assignment of anything else calls _error and leaves name as it was.
C2_NameValidated ==
  [][\A f \in constructed :
       /\ _name[f].t = "string" /\ _name[f].s # ""
       /\ IF last'.op = "setName" /\ last'.f = f
          THEN IF last'.arg.t = "string" /\ last'.arg.s # ""
               THEN _name'[f] = last'.arg /\ last'.err = "none"
               ELSE _name'[f] = _name[f] /\ last'.err # "none"
          ELSE _name'[f] = _name[f]]_vars

\* name was replaced by a later assignment, and an invalid one was then refused
C2_Witness ==
  /\ last.op = "setName"
  /\ last.arg = Str("")
  /\ last.err = "logged"
  /\ _name["field"] = Str("Other")

\* the operations of a constructed Field that may call _error
ErrorOps == {"setName", "setConfig", "setType", "error"}

\* C6 as stated: a call of _error ends in process.exit(2) only when type is
\* unset and suppression is requested; without suppression it is thrown; with
\* suppression and type set it is logged.
C6_ExitOnlySuppressed ==
  [][\A f \in constructed :
       (last'.op \in ErrorOps /\ last'.f = f /\ last'.err # "none") =>
         /\ (last'.err = "exit" => _type[f].t = "undefined" /\ Suppressed(f))
         /\ (~Suppressed(f) => last'.err = "thrown")
         /\ (Suppressed(f) /\ _type[f].t # "undefined" => last'.err = "logged")]_vars

\* C6 amended: a call of _error ends in process.exit(2) exactly when type is
\* unset, whether or not suppression is requested (so always in the
\* constructor); with type set it is thrown when suppression is not requested
\* or forceThrow is true, and logged otherwise.
C6_ExitWhenTypeUnset ==
  [][/\ (last'.op = "construct" /\ last'.err # "none") => last'.err \in {"thrown", "exit"}
     /\ \A f \in constructed :
       /\ (last'.op = "error" /\ last'.f = f => last'.err # "none")
       /\ (last'.op \in ErrorOps /\ last'.f = f /\ last'.err # "none") =>
            last'.err =
              IF _type[f].t = "undefined" THEN "exit"
              ELSE IF ~Suppressed(f) \/ (last'.op = "error" /\ last'.arg = Bool(TRUE))
                   THEN "thrown"
              ELSE "logged"]_vars

\* _error ended the process for a Field whose config does not request suppression
C6_Witness ==
  /\ last.op = "setConfig"
  /\ last.err = "exit"
  /\ "field" \in constructed
  /\ ~Suppressed("field")
  /\ ~running

-----------------------------------------------------------------------------
(* Claims about value, _originalValue, _saveValue and _changed *)

\* one Field: its construction with any value, strict or not, the writes to
\* value and the reads of _saveValue and _changed
NextValue ==
  \/ \E v \in Values, c \in {Undefined, Obj("c2", <<"strict">>, <<Bool(TRUE)>>)} :
       Construct("field", Str("Name"), v, c)
  \/ \E v \in Values : SetValue("field", v)
  \/ GetSaveValue("field")
  \/ GetChanged("field")

SpecValue == Init /\ [][NextValue]_vars

\* a value without the identities of its arrays and objects
RECURSIVE Structure(_)
Structure(v) ==
  [v EXCEPT !.id = "", !.e = [i \in 1..Len(v.e) |-> Structure(v.e[i])]]

\* the runtime type the claims speak of: typeof, with arrays told apart
RuntimeType(v) == IF IsArray(v) THEN "array" ELSE Typeof(v)

\* the number of times x occurs in the sequence e
Count(e, x) == Cardinality({i \in 1..Len(e) : e[i] = x})

\* a and b hold the same elements, in any order
SameElements(a, b) ==
  /\ Len(a) = Len(b)
  /\ \A i \in 1..Len(a) : Count(a, a[i]) = Count(b, a[i])

Strict(f) == StrictEq(GetProp(config(f), "strict"), Bool(TRUE))

\* C3: _changed is false right after construction, whatever the initial value
\* (an omitted one too), and whenever the value assigned last is structurally
\* equal to the baseline.
C3_UnchangedAtBaseline ==
  \A f \in constructed :
    /\ (last.op = "construct" => ~_changed(f))
    /\ (Structure(_value[f]) = Structure(_originalValue_[f]) => ~_changed(f))

\* C4: _originalValue is the value the constructor was given, and no write to
\* value and no read of _saveValue or _changed changes it.
C4_OriginalValueFrame ==
  [][/\ \A f \in constructed : _originalValue_'[f] = _originalValue_[f]
     /\ (last'.op = "construct" /\ last'.err = "none"
           => _originalValue_'[last'.f] = last'.arg)]_vars

\* value was written over a different baseline and _saveValue was read
C4_Witness ==
  /\ last.op = "getSaveValue"
  /\ _originalValue_["field"] = Str("a")
  /\ _value["field"] = Num(1)

\* C5: in a non-strict Field whose baseline is a string, a boolean, a number
\* or an array, after a value of another runtime type that is not undefined,
\* null or NaN is assigned, _saveValue has the runtime type of the baseline.
C5_CoercionConverges ==
  \A f \in constructed :
    ( /\ ~Strict(f)
      /\ RuntimeType(_originalValue_[f]) \in {"string", "boolean", "number", "array"}
      /\ _value[f].t \notin {"undefined", "null", "NaN"}
      /\ RuntimeType(_value[f]) # RuntimeType(_originalValue_[f]) )
    => RuntimeType(_saveValue(f)) = RuntimeType(_originalValue_[f])

\* C7: when the baseline is an array and the value is an array of the same
\* elements in another order, _changed is false.
C7_OrderInsensitive ==
  \A f \in constructed :
    ( /\ IsArray(_originalValue_[f])
      /\ IsArray(_value[f])
      /\ SameElements(_originalValue_[f].e, _value[f].e) )
    => ~_changed(f)

-----------------------------------------------------------------------------
(* Claims about copy *)

\* the values a Field is given before and after it is copied
CopyValues == {Undefined, Str("a"), Num(1)}

\* a Field and its copy: the construction, the copy, and the writes to
\* value, name, config and type of either
NextCopy ==
  \/ \E v \in CopyValues, c \in {Undefined, Obj("c3", <<"__ignoreFieldErrors__">>, <<Bool(TRUE)>>)} :
       Construct("field", Str("Name"), v, c)
  \/ Copy("field", "copy")
  \/ \E f \in Fields, v \in CopyValues : SetValue(f, v)
  \/ \E f \in Fields : SetName(f, Str("Other"))
  \/ \E f \in Fields : SetConfig(f, Obj("c1", <<>>, <<>>))
  \/ \E f \in Fields : SetType(f, Str("TextField"))

SpecCopy == Init /\ [][NextCopy]_vars

\* what a caller reads from a Field
Reads(f) ==
  [ name |-> name(f), value |-> value(f), config |-> _config[f],
    _originalValue |-> _originalValue(f), _saveValue |-> _saveValue(f),
    _changed |-> _changed(f) ]

\* C8: copy() gives a Field that reads the same name, value, config,
\* _originalValue, _saveValue and _changed as its source, and afterwards a
\* write to value, name, config or type of either Field changes nothing the
\* other one reads.
C8_CopyIndependent ==
  [][/\ (last'.op = "copy" /\ last'.err = "none") => Reads("copy")' = Reads("field")'
     /\ \A f \in constructed, g \in constructed :
          (f # g /\ last'.f = f /\ last'.op \in {"setValue", "setName", "setConfig", "setType"})
            => Reads(g)' = Reads(g)]_vars

\* after the copy its value was written; the source still reads its own
\* value, and both keep the baseline
C8_Witness ==
  /\ constructed = Fields
  /\ last.op = "setValue" /\ last.f = "copy"
  /\ _originalValue_["copy"] = Str("a") /\ _originalValue_["field"] = Str("a")
  /\ _value["field"] = Num(1)
  /\ _value["copy"] = Undefined

-----------------------------------------------------------------------------
(* _deepFreezeValue, on a heap of objects *)

\* A value is a primitive or a reference to the object at an address of the
\* heap.  An object is an array (elements e), a plain object, a Field
\* instance or a Record instance; k and v are its named properties, fvalue is
\* what a Field instance's value getter returns.
Ref(a) == [t |-> "ref", n |-> a, s |-> "", b |-> FALSE, e |-> <<>>, k |-> <<>>, id |-> ""]

HeapObject(kind, e, k, v, fvalue) ==
  [kind |-> kind, frozen |-> FALSE, e |-> e, k |-> k, v |-> v, fvalue |-> fvalue]

\* Object.isFrozen(value): true of every primitive
IsFrozen(h, val) == IF val.t = "ref" THEN h[val.n].frozen ELSE TRUE

\* _isRecord(object)
_isRecord(h, object) == object.t = "ref" /\ h[object.n].kind = "Record"

\* value instanceof Field
InstanceofField(h, val) == val.t = "ref" /\ h[val.n].kind = "Field"

\* toString(includeName = true) of a Field instance named "Name" throws a
\* TypeError when its value is null: this.value.toString()
ToStringThrows(o) == o.fvalue.t \in {"undefined", "null"}

toString(o) == "Name: " \o ToString(o.fvalue)

\* cache[value] converts value to a property key, which calls the toString of
\* an object: whether that throws
RECURSIVE KeyThrows(_, _)
KeyThrows(h, val) ==
  /\ val.t = "ref"
  /\ CASE h[val.n].kind = "Field" -> ToStringThrows(h[val.n])
       [] h[val.n].kind = "array" ->
            \E i \in 1..Len(h[val.n].e) : KeyThrows(h, h[val.n].e[i])
       [] OTHER -> FALSE

\* the property key of cache[value]
RECURSIVE Key(_, _)
RECURSIVE KeyJoin(_, _)
Key(h, val) ==
  IF val.t # "ref" THEN ToString(val)
  ELSE CASE h[val.n].kind = "Field"  -> toString(h[val.n])
         [] h[val.n].kind = "array"  -> KeyJoin(h, h[val.n].e)
         [] h[val.n].kind = "object" -> "[object Object]"
         [] h[val.n].kind = "Record" -> "[object Object]"

KeyJoin(h, e) ==
  IF e = <<>> THEN ""
  ELSE LET x == IF Head(e).t \in {"undefined", "null"} THEN "" ELSE Key(h, Head(e))
       IN  IF Len(e) = 1 THEN x ELSE x \o "," \o KeyJoin(h, Tail(e))

\* the object o with its named property key set to x
WithProp(o, key, x) ==
  IF \E i \in 1..Len(o.k) : o.k[i] = key
  THEN [o EXCEPT !.v[CHOOSE i \in 1..Len(o.k) : o.k[i] = key] = x]
  ELSE [o EXCEPT !.k = Append(@, key), !.v = Append(o.v, x)]

\* obj[key] = x in strict mode: a TypeError when obj is a primitive or frozen
PutProp(st, obj, key, x) ==
  IF obj.t # "ref" THEN [st EXCEPT !.err = TRUE]
  ELSE IF st.heap[obj.n].frozen THEN [st EXCEPT !.err = TRUE]
  ELSE [st EXCEPT !.heap[obj.n] = WithProp(@, key, x)]

\* Object.freeze(x): x itself when it is a primitive
ObjectFreeze(h, x) == IF x.t = "ref" THEN [h EXCEPT ![x.n].frozen = TRUE] ELSE h

\* handleValue(value) in the state st = [heap, cache, err, res, out]: the heap
\* and the cache after it, whether it threw, and what it returned
RECURSIVE handleValue(_, _)
RECURSIVE MapElems(_, _, _)
RECURSIVE ReduceEntries(_, _, _, _)
handleValue(st, val) ==
  IF KeyThrows(st.heap, val) THEN [st EXCEPT !.err = TRUE]
  ELSE IF Key(st.heap, val) \in st.cache THEN [st EXCEPT !.res = val]
  ELSE
    LET s1 == [st EXCEPT !.cache = @ \cup {Key(st.heap, val)}]
    IN  IF val.t \in {"undefined", "null", "NaN"} THEN [s1 EXCEPT !.res = val]
        ELSE IF IsFrozen(s1.heap, val) THEN [s1 EXCEPT !.res = val]
        ELSE IF _isRecord(s1.heap, val) THEN [s1 EXCEPT !.res = val]
        ELSE IF InstanceofField(s1.heap, val) THEN [s1 EXCEPT !.res = val]
        ELSE IF s1.heap[val.n].kind = "array" THEN
          \* Object.freeze(value.map(value => handleValue(value)))
          LET m == MapElems(s1, s1.heap[val.n].e, <<>>)
              mapped == [HeapObject("array", m.out, <<>>, <<>>, Undefined) EXCEPT !.frozen = TRUE]
          IN  IF m.err THEN m
              ELSE [m EXCEPT !.heap = Append(@, mapped), !.res = Ref(Len(m.heap) + 1)]
        ELSE
          \* Object.freeze(Object.entries(value).reduce(
          \*   (obj, [key, value]) => obj[key] = handleValue(value), {}))
          LET s2 == [s1 EXCEPT !.heap = Append(@, HeapObject("object", <<>>, <<>>, <<>>, Undefined))]
              r  == ReduceEntries(s2, s1.heap[val.n].k, s1.heap[val.n].v, Ref(Len(s1.heap) + 1))
          IN  IF r.err THEN r
              ELSE [r EXCEPT !.heap = ObjectFreeze(@, r.res)]

\* value.map(value => handleValue(value)) over the elements e; out collects
\* the results
MapElems(st, e, out) ==
  IF e = <<>> THEN [st EXCEPT !.out = out]
  ELSE LET r == handleValue(st, Head(e))
       IN  IF r.err THEN r ELSE MapElems(r, Tail(e), Append(out, r.res))

\* reduce((obj, [key, value]) => obj[key] = handleValue(value), obj) over the
\* entries k, v: the callback returns the value assigned, which is the obj of
\* the next entry
ReduceEntries(st, k, v, obj) ==
  IF k = <<>> THEN [st EXCEPT !.res = obj]
  ELSE LET r == handleValue(st, Head(v))
           p == PutProp(r, obj, Head(k), r.res)
       IN  IF r.err THEN r
           ELSE IF p.err THEN p
           ELSE ReduceEntries(p, Tail(k), Tail(v), r.res)

\* _deepFreezeValue(value) on the heap h
_deepFreezeValue(h, val) ==
  handleValue([heap |-> h, cache |-> {}, err |-> FALSE, res |-> Undefined, out |-> <<>>], val)

-----------------------------------------------------------------------------
(* The caller of _deepFreezeValue *)

\* the values the caller builds its objects from and passes to the call
FreezeVals == {Num(1), Null} \cup {Ref(a) : a \in 1..Len(heap)}

Building == running /\ frozen.calls = 0 /\ Len(heap) < MaxHeap

UnchangedFields ==
  UNCHANGED <<constructed, _name, _config, _type, _value, _originalValue_, running, last>>

\* the caller makes an array [e...]
NewArray(e) ==
  /\ Building
  /\ heap' = Append(heap, HeapObject("array", e, <<>>, <<>>, Undefined))
  /\ UNCHANGED frozen
  /\ UnchangedFields

\* the caller makes a plain object {k: v, ...}
NewObject(k, v) ==
  /\ Building
  /\ heap' = Append(heap, HeapObject("object", <<>>, k, v, Undefined))
  /\ UNCHANGED frozen
  /\ UnchangedFields

\* the caller makes a Field whose value reads x
NewField(x) ==
  /\ Building
  /\ heap' = Append(heap, HeapObject("Field", <<>>, <<>>, <<>>, x))
  /\ UNCHANGED frozen
  /\ UnchangedFields

\* the caller makes a Record
NewRecord ==
  /\ Building
  /\ heap' = Append(heap, HeapObject("Record", <<>>, <<>>, <<>>, Undefined))
  /\ UNCHANGED frozen
  /\ UnchangedFields

\* the caller freezes one of its objects: Object.freeze(x)
FreezeObject(a) ==
  /\ running /\ frozen.calls = 0
  /\ ~heap[a].frozen
  /\ heap' = ObjectFreeze(heap, Ref(a))
  /\ UNCHANGED frozen
  /\ UnchangedFields

\* field._deepFreezeValue(value)
DeepFreeze(val) ==
  /\ running /\ frozen.calls = 0
  /\ LET r == _deepFreezeValue(heap, val)
     IN  /\ heap' = r.heap
         /\ frozen' = [frozen EXCEPT !.calls = 1, !.input = val, !.before = heap,
                         !.result = IF r.err THEN Undefined ELSE r.res,
                         !.err = r.err, !.after = r.heap]
  /\ UnchangedFields

\* field._deepFreezeValue(result), on what the first call returned
DeepFreezeAgain ==
  /\ running /\ frozen.calls = 1 /\ ~frozen.err
  /\ LET r == _deepFreezeValue(heap, frozen.result)
     IN  /\ heap' = r.heap
         /\ frozen' = [frozen EXCEPT !.calls = 2,
                         !.result2 = IF r.err THEN Undefined ELSE r.res,
                         !.err2 = r.err]
  /\ UnchangedFields

NextFreeze ==
  \/ \E e \in SeqsUpTo(FreezeVals, MaxLen) : NewArray(e)
  \/ \E k \in {<<>>, <<"a">>, <<"a", "b">>} : \E v \in [1..Len(k) -> FreezeVals] : NewObject(k, v)
  \/ \E x \in {Null, Str("x")} : NewField(x)
  \/ NewRecord
  \/ \E a \in 1..Len(heap) : FreezeObject(a)
  \/ \E val \in FreezeVals \cup {Undefined, NaN, Str("a")} : DeepFreeze(val)
  \/ DeepFreezeAgain

SpecFreeze == Init /\ [][NextFreeze]_vars

-----------------------------------------------------------------------------
(* Claims about _deepFreezeValue *)

\* the values an object of the heap h holds: its elements and its properties
Children(o) == o.e \o o.v

\* the content of x in the heap h, without addresses and frozen marks (Field
\* and Record instances are told apart by their address); d bounds the depth
RECURSIVE Tree(_, _, _)
Tree(h, x, d) ==
  IF x.t # "ref" THEN x
  ELSE IF h[x.n].kind \in {"Field", "Record"} THEN [Ref(x.n) EXCEPT !.t = h[x.n].kind]
  ELSE IF d = 0 THEN [Undefined EXCEPT !.t = "cycle"]
  ELSE [Undefined EXCEPT
          !.t = h[x.n].kind,
          !.n = Len(h[x.n].e),
          !.k = h[x.n].k,
          !.e = [i \in 1..Len(Children(h[x.n])) |-> Tree(h, Children(h[x.n])[i], d - 1)]]

\* x is built from primitives, arrays and plain objects only
RECURSIVE Plain(_, _, _)
Plain(h, x, d) ==
  \/ x.t # "ref"
  \/ /\ d > 0
     /\ h[x.n].kind \in {"array", "object"}
     /\ \A i \in 1..Len(Children(h[x.n])) : Plain(h, Children(h[x.n])[i], d - 1)

\* x is frozen at every level
RECURSIVE DeepFrozen(_, _, _)
DeepFrozen(h, x, d) ==
  \/ x.t # "ref"
  \/ /\ h[x.n].frozen
     /\ \/ d = 0
        \/ \A i \in 1..Len(Children(h[x.n])) : DeepFrozen(h, Children(h[x.n])[i], d - 1)

\* a Field or Record instance occurs in x: at the top, in an array, or as an
\* entry of a plain object
RECURSIVE HasInstance(_, _, _)
HasInstance(h, x, d) ==
  /\ x.t = "ref"
  /\ \/ h[x.n].kind \in {"Field", "Record"}
     \/ /\ d > 0
        /\ \E i \in 1..Len(Children(h[x.n])) : HasInstance(h, Children(h[x.n])[i], d - 1)

\* wherever x (in the heap hx) holds a Field or Record instance, y (in the
\* heap hy) holds the same reference at the same place
RECURSIVE SamePlaces(_, _, _, _, _)
SamePlaces(hx, x, hy, y, d) ==
  IF x.t # "ref" \/ d = 0 THEN TRUE
  ELSE IF hx[x.n].kind \in {"Field", "Record"} THEN y = x
  ELSE /\ y.t = "ref"
       /\ hy[y.n].kind = hx[x.n].kind
       /\ hy[y.n].k = hx[x.n].k
       /\ Len(hy[y.n].e) = Len(hx[x.n].e)
       /\ \A i \in 1..Len(Children(hx[x.n])) :
            SamePlaces(hx, Children(hx[x.n])[i], hy, Children(hy[y.n])[i], d - 1)

\* C9: _deepFreezeValue changes and freezes nothing of its input; for an input
\* built from primitives, arrays and plain objects it returns a result that is
\* structurally equal to the input and frozen at every level, and applied to
\* that result it returns an equal result.
C9_FreezeCopies ==
  /\ frozen.calls >= 1 =>
       /\ \A a \in 1..Len(frozen.before) : frozen.after[a] = frozen.before[a]
       /\ Plain(frozen.before, frozen.input, Len(frozen.before)) =>
            /\ ~frozen.err
            /\ Tree(frozen.after, frozen.result, Len(frozen.after))
                 = Tree(frozen.before, frozen.input, Len(frozen.before))
            /\ DeepFrozen(frozen.after, frozen.result, Len(frozen.after))
  /\ (frozen.calls = 2 /\ Plain(frozen.before, frozen.input, Len(frozen.before))) =>
       /\ ~frozen.err2
       /\ Tree(heap, frozen.result2, Len(heap))
            = Tree(frozen.after, frozen.result, Len(frozen.after))

\* C10: wherever a Field or Record instance occurs in the input of
\* _deepFreezeValue, the call ends without raising, the instance is neither
\* changed nor frozen, and the result holds the same reference at the same
\* place.
C10_InstancesUntouched ==
  (frozen.calls >= 1 /\ HasInstance(frozen.before, frozen.input, Len(frozen.before))) =>
    /\ ~frozen.err
    /\ \A a \in 1..Len(frozen.before) :
         frozen.before[a].kind \in {"Field", "Record"} => frozen.after[a] = frozen.before[a]
    /\ SamePlaces(frozen.before, frozen.input, frozen.after, frozen.result, Len(frozen.before))

====
